---- MODULE Spec2Model ----
(***************************************************************************)
(* A model of file_task's reconciliation engine (src/src/filesystem.rs):   *)
(* the notification callback classifies raw notifications and sends them   *)
(* on an mpsc channel, and the poll loop's update_file_items drains the    *)
(* channel, applies the changes to the groups and sweeps expired           *)
(* tombstones.                                                             *)
(*                                                                         *)
(* Paths are sequences of components (PathBuf compares and prefixes by     *)
(* component).  Time is an integer; an Instant is a clock value, and one   *)
(* unit of time stands for half of the real retention window.  Every       *)
(* Instant::now() is a read of the monotonic clock: the read of line 83    *)
(* and each elapsed() of line 141 are separate reads.  A read is never     *)
(* earlier than the one before, and the reads of the sweep are later than  *)
(* the read of line 83, the changes being collected and applied in         *)
(* between.  The model keeps every order of those reads relative to the    *)
(* instants at which a tombstone expires.                                  *)
(***************************************************************************)
EXTENDS Integers, Sequences, FiniteSets, TLC

VARIABLES
    file_items,   \* the Vec<FileGroup> the poll loop owns
    queue,        \* the channel: the changes sent and not yet received
    clock,        \* the latest value read from the monotonic clock
    pc,           \* where the poll loop is: "idle", "drain", "run"
    now,          \* update_file_items' local now
    changes,      \* update_file_items' local changes, those not yet applied
    cursor,       \* the position retain has reached
    sent,         \* history: every change sent, in order
    applied,      \* history: every change applied, in order
    atCall,       \* history: how many changes had been sent when the call began
    last,         \* history: the latest applied change, the groups before it,
                  \* the now of its call, and whether it was applied just now
    entry,        \* history: the groups and the number of changes applied when
                  \* the latest call began
    event,        \* history: the raw notification handle_event handled last
    startup,      \* main before the loop: the arguments, the file system and
                  \* what get_initial_state returned
    service,      \* AppState.service
    probe         \* the status command of the health probe

\* the reconciliation engine and its histories
engine == <<file_items, queue, clock, pc, now, changes, cursor,
            sent, applied, atCall, last, entry>>

\* what the engine's steps leave alone
outer == <<event, startup, service, probe>>

vars == <<file_items, queue, clock, pc, now, changes, cursor,
          sent, applied, atCall, last, entry, event, startup, service, probe>>

(* ---------------------------------------------------------------- bounds *)
MaxEvents == 2      \* changes the callback sends
MaxTime == 2        \* latest clock value at which a call may start

(* ------------------------------------------------------------- constants *)
\* main.rs:27, in model time units
DELETED_RETENTION == 2

(* ----------------------------------------------------------------- paths *)
RootDir == <<"root">>
OtherDir == <<"other">>
RootBar == <<"root", "bar">>
RootFoo == <<"root", "foo">>
OtherFoo == <<"other", "foo">>
Untracked == <<"untracked", "x">>

Paths == {RootBar, RootFoo, OtherFoo, Untracked}

\* Option<T>
None == [some |-> FALSE, val |-> 0]
Some(v) == [some |-> TRUE, val |-> v]

\* Path::parent: the path without its final component, None for the root
Parent(p) == IF Len(p) = 0 THEN [some |-> FALSE, val |-> <<>>]
             ELSE [some |-> TRUE, val |-> SubSeq(p, 1, Len(p) - 1)]

\* Path::starts_with: component-wise prefix
StartsWith(p, base) ==
    /\ Len(base) <= Len(p)
    /\ SubSeq(p, 1, Len(base)) = base

(* ------------------------------------------------------------ data model *)
\* FileItem::new; id is the identity of the element in the Vec
NewItem(id, path) == [id |-> id, path |-> path, removed |-> None]

FileGroup(root, items) == [root |-> root, items |-> items]

Added(p) == [kind |-> "Added", path |-> p]
Removed(p) == [kind |-> "Removed", path |-> p]
Moved(f, t) == [kind |-> "Moved", from |-> f, to |-> t]

FileChange == {Added(p) : p \in Paths} \cup {Removed(p) : p \in Paths}
              \cup {Moved(r[1], r[2]) : r \in {q \in Paths \X Paths : q[1] # q[2]}}

\* the registry get_initial_state returns for /root, /root, /other:
\* one group per input path, the children of each, all live
InitialState ==
    << FileGroup(RootDir, <<NewItem(1, RootBar), NewItem(2, RootFoo)>>),
       FileGroup(RootDir, <<NewItem(3, RootBar), NewItem(4, RootFoo)>>),
       FileGroup(OtherDir, <<NewItem(5, OtherFoo)>>) >>

NumGroups == Len(InitialState)

\* the longest item list: the initial items and one push per applied change
MaxItems == 2 + MaxEvents

(* ------------------------------------------------------------ find_groups *)
\* a variant of the filter that lets every group through
FindGroups_All(path, fi) == DOMAIN fi

\* the filter of find_groups: the groups whose root is a prefix of path
FindGroups(path, fi) == {g \in DOMAIN fi : StartsWith(path, fi[g].root)}

\* a variant of find that falls back on the first item when none matches
FindFirst_Fallback(items, path) ==
    IF \E i \in DOMAIN items : items[i].path = path
    THEN CHOOSE i \in DOMAIN items :
            /\ items[i].path = path
            /\ \A j \in 1..(i - 1) : items[j].path # path
    ELSE IF Len(items) > 0 THEN 1 ELSE 0

\* iter_mut().find(|f| f.path == *path): index of the first match, 0 if none
FindFirst(items, path) ==
    IF \E i \in DOMAIN items : items[i].path = path
    THEN CHOOSE i \in DOMAIN items :
            /\ items[i].path = path
            /\ \A j \in 1..(i - 1) : items[j].path # path
    ELSE 0

\* identity of the element pushed into group g by the n-th applied change
FreshId(n, g) == 5 + (n - 1) * NumGroups + g

(* -------------------------------------------------- update_file_items *)
\* a variant of the Added arm that skips a group already holding the path
ApplyAdded_Dedup(fi, path, n) ==
    [g \in DOMAIN fi |->
        IF g \in FindGroups(path, fi) /\ FindFirst(fi[g].items, path) = 0
        THEN [fi[g] EXCEPT !.items = Append(@, NewItem(FreshId(n, g), path))]
        ELSE fi[g]]

\* a variant of the Added arm that merges the groups of equal root into
\* the first of them
ApplyAdded_Merge(fi, path, n) ==
    LET pushed == [g \in DOMAIN fi |->
                      IF g \in FindGroups(path, fi)
                      THEN [fi[g] EXCEPT !.items = Append(@, NewItem(FreshId(n, g), path))]
                      ELSE fi[g]]
        indexed == [g \in DOMAIN fi |-> [g |-> g, group |-> pushed[g]]]
        first(e) == \A h \in 1..(e.g - 1) : pushed[h].root # e.group.root
        kept == SelectSeq(indexed, first)
    IN  [k \in DOMAIN kept |-> kept[k].group]

\* a variant of the Added arm that puts the new item first
ApplyAdded_Front(fi, path, n) ==
    [g \in DOMAIN fi |->
        IF g \in FindGroups(path, fi)
        THEN [fi[g] EXCEPT !.items = <<NewItem(FreshId(n, g), path)>> \o @]
        ELSE fi[g]]

\* FileChange::Added arm
ApplyAdded(fi, path, n) ==
    [g \in DOMAIN fi |->
        IF g \in FindGroups(path, fi)
        THEN [fi[g] EXCEPT !.items = Append(@, NewItem(FreshId(n, g), path))]
        ELSE fi[g]]

\* a variant of the Removed arm that tombstones every entry with the path
ApplyRemoved_Every(fi, path, t) ==
    [g \in DOMAIN fi |->
        IF g \in FindGroups(path, fi)
        THEN [fi[g] EXCEPT !.items =
                 [i \in DOMAIN fi[g].items |->
                     IF fi[g].items[i].path = path
                     THEN [fi[g].items[i] EXCEPT !.removed = Some(t)]
                     ELSE fi[g].items[i]]]
        ELSE fi[g]]

\* a variant of the Removed arm that takes the entry out of the Vec
ApplyRemoved_Delete(fi, path, t) ==
    [g \in DOMAIN fi |->
        IF g \in FindGroups(path, fi) /\ FindFirst(fi[g].items, path) # 0
        THEN [fi[g] EXCEPT !.items =
                 SubSeq(@, 1, FindFirst(@, path) - 1)
                 \o SubSeq(@, FindFirst(@, path) + 1, Len(@))]
        ELSE fi[g]]

\* a variant of the Removed arm that leaves an entry its earlier tombstone
ApplyRemoved_KeepOld(fi, path, t) ==
    [g \in DOMAIN fi |->
        IF /\ g \in FindGroups(path, fi)
           /\ FindFirst(fi[g].items, path) # 0
           /\ ~fi[g].items[FindFirst(fi[g].items, path)].removed.some
        THEN [fi[g] EXCEPT !.items[FindFirst(fi[g].items, path)].removed = Some(t)]
        ELSE fi[g]]

\* FileChange::Removed arm
ApplyRemoved(fi, path, t) ==
    [g \in DOMAIN fi |->
        IF g \in FindGroups(path, fi) /\ FindFirst(fi[g].items, path) # 0
        THEN [fi[g] EXCEPT !.items[FindFirst(fi[g].items, path)].removed = Some(t)]
        ELSE fi[g]]

\* a variant of the rename that leaves the tombstone as it is
ApplyRename_KeepTombstone(fi, from, to) ==
    [g \in DOMAIN fi |->
        IF g \in FindGroups(from, fi) /\ FindFirst(fi[g].items, from) # 0
        THEN [fi[g] EXCEPT !.items[FindFirst(fi[g].items, from)].path = to]
        ELSE fi[g]]

\* FileChange::Moved arm, from.parent() == to.parent()
ApplyRename(fi, from, to) ==
    [g \in DOMAIN fi |->
        IF g \in FindGroups(from, fi) /\ FindFirst(fi[g].items, from) # 0
        THEN [fi[g] EXCEPT !.items[FindFirst(fi[g].items, from)] =
                              [@ EXCEPT !.path = to, !.removed = None]]
        ELSE fi[g]]

\* variants of the tombstone of a move: always now, always a window ago
MoveTombstone_Now(moved, t) == t
MoveTombstone_Past(moved, t) == t - DELETED_RETENTION

\* the tombstone a cross-directory move gives the source entry
MoveTombstone(moved, t) == IF moved THEN t - DELETED_RETENTION ELSE t

\* a variant of the move across directories that pushes the source path
ApplyMoveAcross_PushFrom(fi, from, to, t, n) ==
    LET moved == FindGroups(to, fi) # {}
        pushed == ApplyAdded(fi, from, n)
    IN  ApplyRemoved(pushed, from, MoveTombstone(moved, t))

\* FileChange::Moved arm, different parents
ApplyMoveAcross(fi, from, to, t, n) ==
    LET moved == FindGroups(to, fi) # {}
        pushed == ApplyAdded(fi, to, n)
    IN  ApplyRemoved(pushed, from, MoveTombstone(moved, t))

\* FileChange::Moved arm
ApplyMoved(fi, from, to, t, n) ==
    IF Parent(from) = Parent(to)
    THEN ApplyRename(fi, from, to)
    ELSE ApplyMoveAcross(fi, from, to, t, n)

\* one iteration of the loop over changes
ApplyChange(fi, change, t, n) ==
    CASE change.kind = "Added" -> ApplyAdded(fi, change.path, n)
      [] change.kind = "Removed" -> ApplyRemoved(fi, change.path, t)
      [] change.kind = "Moved" -> ApplyMoved(fi, change.from, change.to, t, n)

\* a variant of the closure that keeps every entry
Retain_Keep(f, t) == TRUE

\* a variant of the closure that drops an entry as old as the window
Retain_Strict(f, t) == (~f.removed.some) \/ (t - f.removed.val < DELETED_RETENTION)

\* the closure of retain: keep f when it is live or its age, read at
\* instant t, is within the window
Retain(f, t) == (~f.removed.some) \/ (t - f.removed.val <= DELETED_RETENTION)

\* the values a clock read of the sweep can return: later than the read of
\* line 83, not earlier than the previous read; a call lasts no longer than
\* the retention window
SweepReads == {t \in (now + 1)..(now + DELETED_RETENTION) : t >= clock}

(* ---------------------------------------------------------- handle_event *)
RawKinds == {"Create", "Remove", "RenameBoth", "RenameFrom", "RenameTo", "Other"}

RawPaths == {<<>>} \cup {<<p>> : p \in Paths}
            \cup {q \in Paths \X Paths : q[1] # q[2]}

\* a variant of the match that takes the two halves of a rename for each
\* other
Classify_Swapped(kind, paths) ==
    CASE kind = "Create" ->
            IF Len(paths) >= 1 THEN Some(Added(paths[1])) ELSE None
      [] kind = "Remove" ->
            IF Len(paths) >= 1 THEN Some(Removed(paths[1])) ELSE None
      [] kind = "RenameBoth" ->
            IF Len(paths) >= 2 THEN Some(Moved(paths[1], paths[2])) ELSE None
      [] kind = "RenameFrom" ->
            IF Len(paths) >= 1 THEN Some(Added(paths[1])) ELSE None
      [] kind = "RenameTo" ->
            IF Len(paths) >= 1 THEN Some(Removed(paths[1])) ELSE None
      [] OTHER -> None

\* the match of handle_event: the FileChange sent for a raw notification
Classify(kind, paths) ==
    CASE kind = "Create" ->
            IF Len(paths) >= 1 THEN Some(Added(paths[1])) ELSE None
      [] kind = "Remove" ->
            IF Len(paths) >= 1 THEN Some(Removed(paths[1])) ELSE None
      [] kind = "RenameBoth" ->
            IF Len(paths) >= 2 THEN Some(Moved(paths[1], paths[2])) ELSE None
      [] kind = "RenameFrom" ->
            IF Len(paths) >= 1 THEN Some(Removed(paths[1])) ELSE None
      [] kind = "RenameTo" ->
            IF Len(paths) >= 1 THEN Some(Added(paths[1])) ELSE None
      [] OTHER -> None

(* ----------------------------------------------------- get_initial_state *)
MaxPaths == 2       \* paths on the command line

LinkDir == <<"link">>
AFile == <<"file">>
Missing == <<"missing">>
Dangling == <<"dangling">>
OtherLn == <<"other", "ln">>
OtherDead == <<"other", "dead">>

\* the nodes of a file system: a directory lists its entries in the order
\* read_dir yields them; a symbolic link names its target
Absent == [type |-> "none", names |-> <<>>, target |-> <<>>, readable |-> FALSE]
File == [type |-> "file", names |-> <<>>, target |-> <<>>, readable |-> TRUE]
Dir(names) == [type |-> "dir", names |-> names, target |-> <<>>, readable |-> TRUE]
Link(target) == [type |-> "link", names |-> <<>>, target |-> target, readable |-> TRUE]

FsPaths == {RootDir, OtherDir, LinkDir, AFile, Missing, Dangling,
            RootBar, RootFoo, OtherFoo, OtherLn, OtherDead}

\* /root and /other as the groups of InitialState have them; /link points
\* to /root, /dangling to nothing
BaseFs ==
    [p \in FsPaths |->
        CASE p = RootDir -> Dir(<<"bar", "foo">>)
          [] p = OtherDir -> Dir(<<"foo">>)
          [] p = LinkDir -> Link(RootDir)
          [] p = Dangling -> Link(Missing)
          [] p \in {AFile, RootBar, RootFoo, OtherFoo} -> File
          [] OTHER -> Absent]

\* /other holds a link to /root/bar; holds a link to nothing; cannot be read
LinkFs == [BaseFs EXCEPT ![OtherDir] = Dir(<<"foo", "ln">>), ![OtherLn] = Link(RootBar)]
DeadFs == [BaseFs EXCEPT ![OtherDir] = Dir(<<"foo", "dead">>), ![OtherDead] = Link(Missing)]
LockedFs == [BaseFs EXCEPT ![OtherDir].readable = FALSE]

FileSystems == {BaseFs, LinkFs, DeadFs, LockedFs}

\* the paths a command line can name
ArgPaths == {RootDir, OtherDir, LinkDir, AFile, Missing, Dangling}

RECURSIVE Follow(_, _, _)
\* the node p leads to through at most n symbolic links
Follow(fs, p, n) ==
    IF p \notin DOMAIN fs \/ fs[p].type = "none" THEN [some |-> FALSE, val |-> <<>>]
    ELSE IF fs[p].type # "link" THEN [some |-> TRUE, val |-> p]
    ELSE IF n = 0 THEN [some |-> FALSE, val |-> <<>>]
    ELSE Follow(fs, fs[p].target, n - 1)

\* Path::canonicalize: the path with its links resolved, an error when it
\* leads to nothing
Canonicalize(fs, p) == Follow(fs, p, Cardinality(FsPaths))

\* Path::exists and Path::is_dir, both through links
Exists(fs, p) == Canonicalize(fs, p).some
IsDir(fs, p) == Exists(fs, p) /\ fs[Canonicalize(fs, p).val].type = "dir"

\* Result<Vec<FileGroup>, Box<dyn Error>>
Ok(groups) == [ok |-> TRUE, groups |-> groups, error |-> "", path |-> <<>>]
Err(error, path) == [ok |-> FALSE, groups |-> <<>>, error |-> error, path |-> path]

\* the most entries a directory of FileSystems has
MaxEntries == 2

\* identity of the k-th item of the i-th group
StartId(i, k) == (i - 1) * MaxEntries + k

\* read_initial_contents for the i-th path: the canonical root and the
\* canonical path of each entry read_dir yields
ReadInitialContents(fs, path, i) ==
    LET root == Canonicalize(fs, path)
        names == fs[root.val].names
        child(k) == Canonicalize(fs, Append(root.val, names[k]))
    IN  IF ~root.some \/ fs[root.val].type # "dir" \/ ~fs[root.val].readable
        THEN Err("io", path)
        ELSE IF \E k \in DOMAIN names : ~child(k).some
        THEN Err("io", path)
        ELSE Ok(<<FileGroup(root.val,
                           [k \in DOMAIN names |-> NewItem(StartId(i, k), child(k).val)])>>)

\* the position of the first path the loop of get_initial_state rejects
Violations(fs, paths) == {i \in DOMAIN paths : ~Exists(fs, paths[i]) \/ ~IsDir(fs, paths[i])}

\* a variant that reports the last of the rejected paths
FirstViolation_Last(fs, paths) ==
    CHOOSE i \in Violations(fs, paths) : \A j \in Violations(fs, paths) : i >= j

FirstViolation(fs, paths) ==
    CHOOSE i \in Violations(fs, paths) : \A j \in Violations(fs, paths) : i <= j

\* a variant of the scan that reads a directory named twice only once
Scan_Once(fs, paths) ==
    LET read == [i \in DOMAIN paths |-> ReadInitialContents(fs, paths[i], i)]
        first(i) == \A j \in 1..(i - 1) : paths[j] # paths[i]
        kept == SelectSeq([i \in DOMAIN paths |-> [i |-> i, r |-> read[i]]],
                          LAMBDA e : first(e.i))
    IN  IF \E i \in DOMAIN read : ~read[i].ok
        THEN read[CHOOSE i \in DOMAIN read :
                     ~read[i].ok /\ \A j \in 1..(i - 1) : read[j].ok]
        ELSE Ok([k \in DOMAIN kept |-> kept[k].r.groups[1]])

\* paths.iter().map(read_initial_contents).collect(): the groups in the
\* order of the paths, or the first error
Scan(fs, paths) ==
    LET read == [i \in DOMAIN paths |-> ReadInitialContents(fs, paths[i], i)]
    IN  IF \E i \in DOMAIN read : ~read[i].ok
        THEN read[CHOOSE i \in DOMAIN read :
                     ~read[i].ok /\ \A j \in 1..(i - 1) : read[j].ok]
        ELSE Ok([i \in DOMAIN read |-> read[i].groups[1]])

\* get_initial_state
GetInitialState(fs, paths) ==
    IF Violations(fs, paths) # {}
    THEN LET p == paths[FirstViolation(fs, paths)]
         IN  IF ~Exists(fs, p) THEN Err("does not exist", p)
             ELSE Err("is not a directory", p)
    ELSE Scan(fs, paths)

\* the command lines: clap requires at least one path
ArgLists == UNION {[1..n -> ArgPaths] : n \in 1..MaxPaths}

NotStarted == [ok |-> FALSE, groups |-> <<>>, error |-> "not started", path |-> <<>>]

(* ------------------------------------------------------------ service.rs *)
\* ServiceState
Unknown(name) == [tag |-> "Unknown", name |-> name, status |-> "", active |-> FALSE]
Details(name, status, active) ==
    [tag |-> "Details", name |-> name, status |-> status, active |-> active]

ServiceNames == {"a.service", "b.service"}

\* what the status command can do: it cannot be executed, it never exits,
\* or it exits with a code and with bytes on its standard output that are
\* UTF-8 text or are not
ExitCodes == {0, 1, 3}
StatusTexts == {"active", "inactive", "failed"}
Stdouts == {[utf8 |-> TRUE, text |-> x] : x \in StatusTexts}
           \cup {[utf8 |-> FALSE, text |-> ""]}
Exits == {[kind |-> "exit", code |-> c, stdout |-> o] : c \in ExitCodes, o \in Stdouts}
NoExit == [code |-> 0, stdout |-> [utf8 |-> FALSE, text |-> ""]]
SpawnError == [kind |-> "spawn error", code |-> NoExit.code, stdout |-> NoExit.stdout]
Hangs == [kind |-> "hangs", code |-> NoExit.code, stdout |-> NoExit.stdout]
Behaviours == Exits \cup {SpawnError, Hangs}

\* Command::output().ok(): the Output of a command that ran and exited
MaybeOutput(b) == IF b.kind = "exit" THEN Some([code |-> b.code, stdout |-> b.stdout])
                  ELSE [some |-> FALSE, val |-> NoExit]

\* a variant of ServiceState::from that takes a failed command for no status
ServiceStateFrom_Strict(name, maybe_output) ==
    IF ~maybe_output.some THEN Unknown(name)
    ELSE IF ~maybe_output.val.stdout.utf8 THEN Unknown(name)
    ELSE IF maybe_output.val.code # 0 THEN Unknown(name)
    ELSE Details(name, maybe_output.val.stdout.text, TRUE)

\* ServiceState::from
ServiceStateFrom(name, maybe_output) ==
    IF ~maybe_output.some THEN Unknown(name)
    ELSE IF ~maybe_output.val.stdout.utf8 THEN Unknown(name)
    ELSE Details(name, maybe_output.val.stdout.text, maybe_output.val.code = 0)

\* Option<ServiceState>
NoService == [tag |-> "None", name |-> "", status |-> "", active |-> FALSE]

\* no status command has run yet
NoProbe == [pc |-> "idle", unit |-> "", does |-> SpawnError, ran |-> FALSE]

(* ----------------------------------------------------------------- state *)
NoChange == [kind |-> "None"]
NoEvent == [n |-> 0, kind |-> "Other", paths |-> <<>>]

\* main has built the registry of /root, /root, /other and has no service
Started == [pc |-> "done", fs |-> BaseFs, paths |-> <<RootDir, RootDir, OtherDir>>,
            result |-> Ok(InitialState)]

Init ==
    /\ file_items = InitialState
    /\ queue = <<>>
    /\ clock = 0
    /\ pc = "idle"
    /\ now = 0
    /\ changes = <<>>
    /\ cursor = [g |-> 1, i |-> 1]
    /\ sent = <<>>
    /\ applied = <<>>
    /\ atCall = 0
    /\ last = [ev |-> NoChange, pre |-> InitialState, at |-> 0, fresh |-> FALSE]
    /\ entry = [items |-> InitialState, applied |-> 0]
    /\ event = NoEvent
    /\ startup = Started
    /\ service = NoService
    /\ probe = NoProbe

(* --------------------------------------------------------------- actions *)
\* what handle_event does for the raw notifications: the change it sends,
\* or None when it sends nothing
Outcomes == {Classify(kind, paths) : kind \in RawKinds, paths \in RawPaths}

\* the debouncer's callback handles one raw notification, concurrently with
\* the poll loop: tx.send of the classified change, if any
HandleEvent ==
    /\ Len(sent) < MaxEvents
    /\ \E c \in Outcomes :
          /\ queue' = IF c.some THEN Append(queue, c.val) ELSE queue
          /\ sent' = IF c.some THEN Append(sent, c.val) ELSE sent
    /\ UNCHANGED <<file_items, clock, pc, now, changes, cursor, applied, atCall, last, entry>>
    /\ UNCHANGED outer

\* update_file_items is entered: let now = Instant::now()
Begin ==
    /\ pc = "idle"
    /\ \E t \in clock..MaxTime :
          /\ clock' = t
          /\ now' = t
    /\ pc' = "drain"
    /\ changes' = <<>>
    /\ atCall' = Len(sent)
    /\ entry' = [items |-> file_items, applied |-> Len(applied)]
    /\ UNCHANGED <<file_items, queue, cursor, sent, applied, last>>
    /\ UNCHANGED outer

\* a variant of try_recv that takes the newest message
Received_Newest(q) == q[Len(q)]

\* what try_recv takes from a channel that is not empty: the oldest message
Received(q) == Head(q)

\* one try_recv of rx.try_iter().collect(): a message is collected, or the
\* channel is empty and the iterator ends
TryRecv ==
    /\ pc = "drain"
    /\ IF queue # <<>>
       THEN /\ changes' = Append(changes, Received(queue))
            /\ queue' = Tail(queue)
            /\ pc' = "drain"
       ELSE /\ pc' = "run"
            /\ UNCHANGED <<changes, queue>>
    /\ UNCHANGED <<file_items, clock, now, cursor, sent, applied, atCall, last, entry>>
    /\ UNCHANGED outer

\* one iteration of the loop over the drained changes
Apply ==
    /\ pc = "run"
    /\ changes # <<>>
    /\ file_items' = ApplyChange(file_items, Head(changes), now, Len(applied) + 1)
    /\ last' = [ev |-> Head(changes), pre |-> file_items, at |-> now, fresh |-> TRUE]
    /\ applied' = Append(applied, Head(changes))
    /\ changes' = Tail(changes)
    /\ UNCHANGED <<queue, clock, pc, now, cursor, sent, atCall, entry>>
    /\ UNCHANGED outer

\* the positions of the tombstoned items the loop over the groups has yet
\* to visit: retain's closure reads the clock for these only
Pending(fi, c) ==
    {q \in [g : DOMAIN fi, i : 1..MaxItems] :
        /\ q.i <= Len(fi[q.g].items)
        /\ fi[q.g].items[q.i].removed.some
        /\ (q.g > c.g \/ (q.g = c.g /\ q.i >= c.i))}

\* the first of them in the order of the two loops
NextPending(fi, c) ==
    CHOOSE q \in Pending(fi, c) :
        \A r \in Pending(fi, c) : q.g < r.g \/ (q.g = r.g /\ q.i <= r.i)

\* a variant of the removal that drops the items before position i too
RemoveAt_Prefix(items, i) == SubSeq(items, i + 1, Len(items))

\* the items of a group without the one at position i
RemoveAt(items, i) == SubSeq(items, 1, i - 1) \o SubSeq(items, i + 1, Len(items))

\* retain reaches the next tombstoned item (live items are kept without a
\* clock read): its closure reads the clock and the item is kept or dropped
SweepItem ==
    /\ pc = "run"
    /\ changes = <<>>
    /\ Pending(file_items, cursor) # {}
    /\ LET q == NextPending(file_items, cursor)
           f == file_items[q.g].items[q.i]
       IN  \E t \in SweepReads :
              /\ clock' = t
              /\ IF Retain(f, t)
                 THEN /\ cursor' = [q EXCEPT !.i = @ + 1]
                      /\ UNCHANGED file_items
                 ELSE /\ file_items' =
                           [file_items EXCEPT ![q.g].items = RemoveAt(@, q.i)]
                      /\ cursor' = q
    /\ last' = [last EXCEPT !.fresh = FALSE]
    /\ UNCHANGED <<queue, pc, now, changes, sent, applied, atCall, entry>>
    /\ UNCHANGED outer

\* no tombstoned item is left to visit: update_file_items returns
Return ==
    /\ pc = "run"
    /\ changes = <<>>
    /\ Pending(file_items, cursor) = {}
    /\ pc' = "idle"
    /\ cursor' = [g |-> 1, i |-> 1]
    /\ last' = [last EXCEPT !.fresh = FALSE]
    /\ UNCHANGED <<file_items, queue, clock, now, changes, sent, applied, atCall, entry>>
    /\ UNCHANGED outer

Next ==
    \/ HandleEvent
    \/ Begin
    \/ TryRecv
    \/ Apply
    \/ SweepItem
    \/ Return

Spec == Init /\ [][Next]_vars

(* ------------------------------------------------- the loop of run, on *)
\* the latest clock value at which a call may start when the loop is left
\* to run
LiveTime == MaxTime + 1

\* update_file_items is entered at instant t
BeginAt(t) ==
    /\ pc = "idle"
    /\ t >= clock
    /\ clock' = t
    /\ now' = t
    /\ pc' = "drain"
    /\ changes' = <<>>
    /\ atCall' = Len(sent)
    /\ entry' = [items |-> file_items, applied |-> Len(applied)]
    /\ UNCHANGED <<file_items, queue, cursor, sent, applied, last>>
    /\ UNCHANGED outer

\* the next iteration of run's loop calls update_state
BeginLate == \E t \in 0..LiveTime : BeginAt(t)

NextLate ==
    \/ HandleEvent
    \/ BeginLate
    \/ TryRecv
    \/ Apply
    \/ SweepItem
    \/ Return

\* run loops for ever: the call in progress runs to its end and another
\* follows; and time passes: a call begins at LiveTime unless the clock is
\* already later
FairSpec ==
    /\ Init
    /\ [][NextLate]_vars
    /\ WF_vars(TryRecv)
    /\ WF_vars(Apply)
    /\ WF_vars(SweepItem)
    /\ WF_vars(Return)
    /\ WF_vars(BeginLate)
    /\ SF_vars(BeginAt(LiveTime))

(* ------------------------------------- the loop over the drained changes *)
\* paths under no watched root: a sibling of Untracked and a file of
\* another directory
UntrackedY == <<"untracked", "y">>
Elsewhere == <<"elsewhere", "z">>

AnyPaths == Paths \cup {UntrackedY, Elsewhere}

\* the changes a drained list can hold
AnyChange == {Added(p) : p \in AnyPaths} \cup {Removed(p) : p \in AnyPaths}
             \cup {Moved(r[1], r[2]) : r \in {q \in AnyPaths \X AnyPaths : q[1] # q[2]}}

\* update_file_items has collected its changes at some instant
LoopInit ==
    /\ file_items = InitialState
    /\ queue = <<>>
    /\ clock \in 0..MaxTime
    /\ now = clock
    /\ pc = "run"
    /\ changes = <<>>
    /\ cursor = [g |-> 1, i |-> 1]
    /\ sent = <<>>
    /\ applied = <<>>
    /\ atCall = 0
    /\ last = [ev |-> NoChange, pre |-> InitialState, at |-> 0, fresh |-> FALSE]
    /\ entry = [items |-> InitialState, applied |-> 0]
    /\ event = NoEvent
    /\ startup = Started
    /\ service = NoService
    /\ probe = NoProbe

\* one iteration of the loop, for any next element of the drained list
ApplyAny ==
    /\ Len(applied) < MaxEvents
    /\ \E c \in AnyChange :
          /\ file_items' = ApplyChange(file_items, c, now, Len(applied) + 1)
          /\ last' = [ev |-> c, pre |-> file_items, at |-> now, fresh |-> TRUE]
          /\ applied' = Append(applied, c)
          /\ sent' = Append(sent, c)
    /\ UNCHANGED <<queue, clock, pc, now, changes, cursor, atCall, entry>>
    /\ UNCHANGED outer

LoopSpec == LoopInit /\ [][ApplyAny]_vars

(* ------------------------------------------------- the callback, alone *)
\* handle_event for one raw notification, the notification kept: HandleEvent
\* is this step with the notifications of equal outcome taken as one
HandleRaw ==
    /\ event.n < MaxEvents
    /\ \E kind \in RawKinds, paths \in RawPaths :
          LET c == Classify(kind, paths)
          IN  /\ event' = [n |-> event.n + 1, kind |-> kind, paths |-> paths]
              /\ queue' = IF c.some THEN Append(queue, c.val) ELSE queue
              /\ sent' = IF c.some THEN Append(sent, c.val) ELSE sent
    /\ UNCHANGED <<file_items, clock, pc, now, changes, cursor, applied, atCall, last, entry>>
    /\ UNCHANGED <<startup, service, probe>>

WatchSpec == Init /\ [][HandleRaw]_vars

(* ------------------------------------------------------- main, starting *)
\* main is entered with some command line on some file system
StartInit ==
    /\ file_items = <<>>
    /\ queue = <<>>
    /\ clock = 0
    /\ pc = "idle"
    /\ now = 0
    /\ changes = <<>>
    /\ cursor = [g |-> 1, i |-> 1]
    /\ sent = <<>>
    /\ applied = <<>>
    /\ atCall = 0
    /\ last = [ev |-> NoChange, pre |-> InitialState, at |-> 0, fresh |-> FALSE]
    /\ entry = [items |-> InitialState, applied |-> 0]
    /\ event = NoEvent
    /\ startup \in {[pc |-> "args", fs |-> f, paths |-> a, result |-> NotStarted] :
                        f \in FileSystems, a \in ArgLists}
    /\ service = NoService
    /\ probe = NoProbe

\* file_groups: get_initial_state(args.paths)?: the registry is built, or
\* main returns the error
Start ==
    /\ startup.pc = "args"
    /\ LET r == GetInitialState(startup.fs, startup.paths)
       IN  /\ startup' = [startup EXCEPT !.pc = IF r.ok THEN "done" ELSE "failed",
                                         !.result = r]
           /\ file_items' = r.groups
    /\ UNCHANGED <<queue, clock, pc, now, changes, cursor, sent, applied, atCall, last, entry>>
    /\ UNCHANGED <<event, service, probe>>

StartSpec == StartInit /\ [][Start]_vars

(* ------------------------------------------------- the probe of a tick *)
\* service: args.service.map(ServiceState::Unknown)
ProbeInit ==
    /\ file_items = InitialState
    /\ queue = <<>>
    /\ clock = 0
    /\ pc = "idle"
    /\ now = 0
    /\ changes = <<>>
    /\ cursor = [g |-> 1, i |-> 1]
    /\ sent = <<>>
    /\ applied = <<>>
    /\ atCall = 0
    /\ last = [ev |-> NoChange, pre |-> InitialState, at |-> 0, fresh |-> FALSE]
    /\ entry = [items |-> InitialState, applied |-> 0]
    /\ event = NoEvent
    /\ startup = Started
    /\ service \in {NoService} \cup {Unknown(n) : n \in ServiceNames}
    /\ probe = NoProbe

\* update_state calls update_service_status, which, for Some service, calls
\* service_status: the status command is run for the name of the service,
\* and does whatever it does
ProbeStart ==
    /\ probe.pc = "idle"
    /\ service.tag # "None"
    /\ \E b \in Behaviours :
          probe' = [pc |-> "running", unit |-> service.name, does |-> b, ran |-> TRUE]
    /\ UNCHANGED engine
    /\ UNCHANGED <<event, startup, service>>

\* output() returns, when the command has exited or could not be executed,
\* and update_state assigns ServiceState::from(unit, output)
ProbeEnd ==
    /\ probe.pc = "running"
    /\ probe.does.kind # "hangs"
    /\ service' = ServiceStateFrom(probe.unit, MaybeOutput(probe.does))
    /\ probe' = [probe EXCEPT !.pc = "idle"]
    /\ UNCHANGED engine
    /\ UNCHANGED <<event, startup>>

ProbeNext ==
    \/ ProbeStart
    \/ ProbeEnd

ProbeSpec == ProbeInit /\ [][ProbeNext]_vars

TypeOK ==
    /\ pc \in {"idle", "drain", "run"}
    /\ clock \in 0..(MaxTime + DELETED_RETENTION)
    /\ Len(sent) <= MaxEvents

(***************************************************************************)
(* Properties.  They are stated with their own reading of paths and item   *)
(* lists, not with the operators of the model.                             *)
(***************************************************************************)
\* root is a prefix of path, component by component
Under(path, root) ==
    /\ Len(root) <= Len(path)
    /\ \A k \in 1..Len(root) : path[k] = root[k]

\* the groups of fi whose root is a prefix of path
Matching(path, fi) == {g \in DOMAIN fi : Under(path, fi[g].root)}

\* a and b have the same parent directory
SameDir(a, b) ==
    \/ Len(a) = 0 /\ Len(b) = 0
    \/ /\ Len(a) > 0
       /\ Len(a) = Len(b)
       /\ \A k \in 1..(Len(a) - 1) : a[k] = b[k]

\* the positions of the entries of items with the given path
At(items, path) == {i \in DOMAIN items : items[i].path = path}

\* the position of the first of them, 0 when there is none
First(items, path) ==
    IF At(items, path) = {} THEN 0
    ELSE CHOOSE i \in At(items, path) : \A j \in At(items, path) : i <= j

IdsOf(items) == {items[i].id : i \in DOMAIN items}
IdSeq(items) == [i \in DOMAIN items |-> items[i].id]

\* what a FileItem holds: its path and its tombstone
View(items) == [i \in DOMAIN items |-> [path |-> items[i].path, removed |-> items[i].removed]]

Live(f) == ~f.removed.some
Tombstoned(f, t) == f.removed.some /\ f.removed.val = t

\* items is before with one new live entry for path appended
Appended(items, before, path) ==
    /\ Len(items) = Len(before) + 1
    /\ SubSeq(items, 1, Len(before)) = before
    /\ items[Len(items)].path = path
    /\ Live(items[Len(items)])
    /\ items[Len(items)].id \notin IdsOf(before)

\* the latest applied change is a move across directories / a rename in place
IsAcross(ev) == ev.kind = "Moved" /\ ~SameDir(ev.from, ev.to)
IsRename(ev) == ev.kind = "Moved" /\ SameDir(ev.from, ev.to)

\* the groups before the latest applied change, and after it
Pre == last.pre
Post == file_items

\* the latest applied change has just been applied: nothing else has happened
\* to the groups since
JustApplied == last.fresh

\* update_file_items has returned and no change has been applied since the
\* latest applied change
Settled == pc = "idle" /\ last.ev.kind # "None"

(* ------------------------------------------------------------------- C1 *)
\* C1: a move across directories to a watched destination appends a live
\* entry for to at the end of every group matching to and gives the first
\* entry at from, in every group matching from, a tombstone one retention
\* window before now; when the call that applied it as its last change has
\* returned, the new entries are the last of their groups and live, and the
\* entry at from is gone
C1_MoveBetween ==
    (IsAcross(last.ev) /\ Matching(last.ev.to, Pre) # {}) =>
        /\ JustApplied =>
              /\ \A g \in Matching(last.ev.to, Pre) :
                    /\ Len(Post[g].items) = Len(Pre[g].items) + 1
                    /\ Post[g].items[Len(Post[g].items)].path = last.ev.to
                    /\ Live(Post[g].items[Len(Post[g].items)])
                    /\ Post[g].items[Len(Post[g].items)].id \notin IdsOf(Pre[g].items)
              /\ \A g \in Matching(last.ev.from, Pre) :
                    LET i == First(Pre[g].items, last.ev.from)
                    IN  i # 0 =>
                          /\ Post[g].items[i].id = Pre[g].items[i].id
                          /\ Post[g].items[i].path = last.ev.from
                          /\ Tombstoned(Post[g].items[i], now - DELETED_RETENTION)
        /\ Settled =>
              /\ \A g \in Matching(last.ev.to, Pre) :
                    /\ Len(Post[g].items) >= 1
                    /\ Post[g].items[Len(Post[g].items)].path = last.ev.to
                    /\ Live(Post[g].items[Len(Post[g].items)])
                    /\ Post[g].items[Len(Post[g].items)].id \notin IdsOf(Pre[g].items)
              /\ \A g \in Matching(last.ev.from, Pre) :
                    LET i == First(Pre[g].items, last.ev.from)
                    IN  i # 0 => Pre[g].items[i].id \notin IdsOf(Post[g].items)

\* the call that applied a move of a tracked entry to a watched directory
\* has returned
C1_Witness ==
    /\ Settled
    /\ IsAcross(last.ev)
    /\ Matching(last.ev.to, Pre) # {}
    /\ \E g \in Matching(last.ev.from, Pre) : First(Pre[g].items, last.ev.from) # 0

(* ------------------------------------------------------------------- C2 *)
\* C2: a rename in place leaves every group with the same entries in the
\* same order; in every group matching from, the first entry at from has the
\* path to and no tombstone, whatever its tombstone was
C2_Rename ==
    (IsRename(last.ev) /\ JustApplied) =>
        \A g \in DOMAIN Pre :
            /\ IdSeq(Post[g].items) = IdSeq(Pre[g].items)
            /\ LET i == First(Pre[g].items, last.ev.from)
               IN  (g \in Matching(last.ev.from, Pre) /\ i # 0) =>
                      /\ Post[g].items[i].path = last.ev.to
                      /\ Live(Post[g].items[i])

\* a tombstoned entry has just been renamed
C2_Witness ==
    /\ JustApplied
    /\ IsRename(last.ev)
    /\ \E g \in Matching(last.ev.from, Pre) :
          LET i == First(Pre[g].items, last.ev.from)
          IN  i # 0 /\ ~Live(Pre[g].items[i]) /\ Live(Post[g].items[i])

(* ------------------------------------------------------------------- C3 *)
\* C3: Removed(p) gives the first entry at p, in every group matching p, the
\* tombstone now, and changes nothing else: every other entry, the number of
\* entries and their order are as before; the entry is still there when the
\* call returns
C3_Removed ==
    (last.ev.kind = "Removed") =>
        \A g \in DOMAIN Pre :
            LET i == First(Pre[g].items, last.ev.path)
                hit == g \in Matching(last.ev.path, Pre) /\ i # 0
            IN  /\ (JustApplied /\ hit) =>
                      /\ Len(Post[g].items) = Len(Pre[g].items)
                      /\ \A j \in DOMAIN Pre[g].items :
                            IF j = i
                            THEN /\ Post[g].items[j].id = Pre[g].items[j].id
                                 /\ Post[g].items[j].path = Pre[g].items[j].path
                                 /\ Tombstoned(Post[g].items[j], now)
                            ELSE Post[g].items[j] = Pre[g].items[j]
                /\ (Settled /\ hit /\ now = last.at) =>
                      Pre[g].items[i].id \in IdsOf(Post[g].items)

\* Removed has just tombstoned an entry
C3_Witness ==
    /\ JustApplied
    /\ last.ev.kind = "Removed"
    /\ \E g \in Matching(last.ev.path, Pre) : First(Pre[g].items, last.ev.path) # 0

(* ------------------------------------------------------------------- C4 *)
\* C4: Added(p) appends one new live entry for p to every group matching p,
\* whether or not the group holds an entry for p, and changes no other group
\* and no existing entry
C4_Added ==
    (last.ev.kind = "Added" /\ JustApplied) =>
        \A g \in DOMAIN Pre :
            IF g \in Matching(last.ev.path, Pre)
            THEN Appended(Post[g].items, Pre[g].items, last.ev.path)
            ELSE Post[g] = Pre[g]

\* Added has just been applied to a group that held an entry for the path
C4_Witness ==
    /\ JustApplied
    /\ last.ev.kind = "Added"
    /\ \E g \in Matching(last.ev.path, Pre) :
          /\ First(Pre[g].items, last.ev.path) # 0
          /\ Cardinality(At(Post[g].items, last.ev.path)) >= 2

(* ------------------------------------------------------------------- C5 *)
\* C5: a move across directories to a destination under no watched root
\* gives the first entry at from, in every group matching from, the
\* tombstone now and changes nothing else; as long as no other change is
\* applied, the entry stays while the clock has not passed its tombstone by
\* more than the retention window, and it is gone when a call that began a
\* full window after the tombstone returns
C5_MoveOut ==
    (IsAcross(last.ev) /\ Matching(last.ev.to, Pre) = {}) =>
        \A g \in DOMAIN Pre :
            LET i == First(Pre[g].items, last.ev.from)
                hit == g \in Matching(last.ev.from, Pre) /\ i # 0
            IN  /\ JustApplied =>
                      IF hit
                      THEN /\ Len(Post[g].items) = Len(Pre[g].items)
                           /\ \A j \in DOMAIN Pre[g].items :
                                 IF j = i
                                 THEN /\ Post[g].items[j].id = Pre[g].items[j].id
                                      /\ Post[g].items[j].path = Pre[g].items[j].path
                                      /\ Tombstoned(Post[g].items[j], now)
                                 ELSE Post[g].items[j] = Pre[g].items[j]
                      ELSE Post[g] = Pre[g]
                /\ (hit /\ clock - last.at <= DELETED_RETENTION) =>
                      Pre[g].items[i].id \in IdsOf(Post[g].items)
                /\ (hit /\ pc = "idle" /\ now - last.at >= DELETED_RETENTION) =>
                      Pre[g].items[i].id \notin IdsOf(Post[g].items)

\* an entry moved out of every watched root has been purged by a later call
C5_Witness ==
    /\ pc = "idle"
    /\ IsAcross(last.ev)
    /\ Matching(last.ev.to, Pre) = {}
    /\ now - last.at >= DELETED_RETENTION
    /\ \E g \in Matching(last.ev.from, Pre) :
          LET i == First(Pre[g].items, last.ev.from)
          IN  i # 0 /\ Pre[g].items[i].id \notin IdsOf(Post[g].items)

(* ------------------------------------------------------------------- C6 *)
\* C6: a move across directories whose source is the path of no entry of a
\* group matching it, and whose destination is under a watched root, appends
\* a new live entry for to to every group matching to and changes nothing
\* else
C6_MoveIn ==
    ( /\ IsAcross(last.ev)
      /\ JustApplied
      /\ Matching(last.ev.to, Pre) # {}
      /\ \A g \in Matching(last.ev.from, Pre) : First(Pre[g].items, last.ev.from) = 0 ) =>
        \A g \in DOMAIN Pre :
            IF g \in Matching(last.ev.to, Pre)
            THEN Appended(Post[g].items, Pre[g].items, last.ev.to)
            ELSE Post[g] = Pre[g]

\* an entry has just arrived from a path under no watched root
C6_Witness ==
    /\ JustApplied
    /\ IsAcross(last.ev)
    /\ Matching(last.ev.from, Pre) = {}
    /\ Matching(last.ev.to, Pre) # {}

(* ------------------------------------------------------------------- C7 *)
\* the step is a visit of retain's closure
SweepStep == pc = "run" /\ changes = <<>> /\ pc' = "run" /\ queue' = queue

\* the item retain visits next: the first tombstoned one from the cursor on
Visited(g, i) ==
    /\ file_items[g].items[i].removed.some
    /\ (g > cursor.g \/ (g = cursor.g /\ i >= cursor.i))
    /\ \A h \in DOMAIN file_items : \A j \in DOMAIN file_items[h].items :
          ( /\ file_items[h].items[j].removed.some
            /\ (h > cursor.g \/ (h = cursor.g /\ j >= cursor.i)) )
          => (g < h \/ (g = h /\ i <= j))

C7_Step ==
    \A g \in DOMAIN file_items : \A i \in DOMAIN file_items[g].items :
        LET f == file_items[g].items[i]
        IN  (f.id \notin IdsOf(file_items'[g].items)) <=>
               ( /\ SweepStep
                 /\ Visited(g, i)
                 /\ clock' - f.removed.val > DELETED_RETENTION )

\* C7: an entry leaves its group in a step exactly when the step is the
\* sweep's visit of that entry, the entry is tombstoned and the time elapsed
\* since its tombstone, as read in that visit, is greater than the retention
\* window; and when a call has returned, no entry is left whose tombstone was
\* a full window old when the call began
C7_Sweep ==
    /\ [][C7_Step]_vars
    /\ [](pc = "idle" =>
            \A g \in DOMAIN file_items : \A i \in DOMAIN file_items[g].items :
                file_items[g].items[i].removed.some =>
                    now - file_items[g].items[i].removed.val < DELETED_RETENTION)

\* the sweep has kept an entry whose age was exactly the retention window
C7_Witness ==
    /\ pc = "run"
    /\ changes = <<>>
    /\ \E g \in DOMAIN file_items : \E i \in DOMAIN file_items[g].items :
          /\ file_items[g].items[i].removed.some
          /\ clock - file_items[g].items[i].removed.val = DELETED_RETENTION
          /\ (g < cursor.g \/ (g = cursor.g /\ i < cursor.i))

(* ------------------------------------------------------------------- C8 *)
\* C8: when Removed(p) is applied right after Added(p), the entry Added
\* created (the last of each group matching p) carries a tombstone
C8_AddedThenRemoved ==
    ( /\ JustApplied
      /\ last.ev.kind = "Removed"
      /\ Len(applied) >= 2
      /\ applied[Len(applied) - 1] = [kind |-> "Added", path |-> last.ev.path] ) =>
        \A g \in Matching(last.ev.path, Pre) :
            /\ Len(Post[g].items) = Len(Pre[g].items)
            /\ Len(Pre[g].items) >= 1
            /\ Post[g].items[Len(Pre[g].items)].path = last.ev.path
            /\ ~Live(Post[g].items[Len(Pre[g].items)])

(* ------------------------------------------------------------------- C9 *)
\* C9: two groups with the same root and the same initial items have the
\* same items, with the same tombstones, whenever update_file_items has
\* returned
C9_SameRoot ==
    pc = "idle" =>
        \A g \in DOMAIN file_items : \A h \in DOMAIN file_items :
            ( /\ file_items[g].root = file_items[h].root
              /\ View(InitialState[g].items) = View(InitialState[h].items) )
            => View(file_items[g].items) = View(file_items[h].items)

(* ------------------------------------------------------------------ C10 *)
\* C10: the changes applied, those collected and not yet applied, and those
\* still in the channel are, in this order, exactly the changes sent: none
\* is lost, none is applied twice, and they are applied in the order sent;
\* every change sent before a call began has been applied when the call has
\* returned; and the call can always take its next step by itself, an empty
\* channel included
C10_Channel ==
    /\ sent = applied \o changes \o queue
    /\ pc = "idle" => Len(applied) >= atCall
    /\ pc = "run" => Len(applied) + Len(changes) >= atCall
    /\ pc # "idle" => ENABLED (TryRecv \/ Apply \/ SweepItem \/ Return)

\* a call has returned after applying a change that was sent while it ran
C10_Witness ==
    /\ pc = "idle"
    /\ Len(applied) >= 2
    /\ Len(applied) > atCall

(* ------------------------------------------------------------------ C11 *)
\* the latest call collected no change: it has reached the sweep, or has
\* returned, without applying any
ZeroEvents ==
    /\ pc \in {"run", "idle"}
    /\ changes = <<>>
    /\ Len(applied) = entry.applied

\* the entries of before that are entries of items, in the order of before
Surviving(before, items) ==
    LET keep(f) == f.id \in IdsOf(items)
    IN  SelectSeq(before, keep)

\* C11: through a call that collected no change, every group holds entries
\* it held when the call began and no other, unchanged and in the same
\* order; every entry that was live is among them, and so is every
\* tombstoned entry whose age, at the latest clock read, is within the
\* retention window
C11_EmptyCall ==
    ZeroEvents =>
        \A g \in DOMAIN entry.items :
            LET before == entry.items[g].items
            IN  /\ Post[g].root = entry.items[g].root
                /\ Post[g].items = Surviving(before, Post[g].items)
                /\ \A i \in DOMAIN before :
                      (Live(before[i]) \/ clock - before[i].removed.val <= DELETED_RETENTION)
                          => before[i] \in {Post[g].items[j] : j \in DOMAIN Post[g].items}

\* a call that collected no change has returned; its sweep removed an entry
\* that followed a live one and kept a tombstoned one
C11_Witness ==
    /\ pc = "idle"
    /\ ZeroEvents
    /\ \E g \in DOMAIN entry.items :
          /\ Len(Post[g].items) < Len(entry.items[g].items)
          /\ Live(entry.items[g].items[1])
    /\ \E g \in DOMAIN Post : \E i \in DOMAIN Post[g].items : ~Live(Post[g].items[i])

(* ------------------------------------------------------------------ C12 *)
\* the latest tombstone that has expired for every clock read of a call
\* whose reads go beyond LiveTime
Expiring == LiveTime + 1 - 2 * DELETED_RETENTION

\* some entry carries a tombstone of Expiring or earlier
Stale ==
    \E g \in DOMAIN file_items : \E i \in DOMAIN file_items[g].items :
        /\ file_items[g].items[i].removed.some
        /\ file_items[g].items[i].removed.val <= Expiring

\* C12: with the loop running and time passing, again and again no group
\* holds an entry tombstoned at Expiring or earlier: no such entry stays for
\* ever, whether or not changes are still sent
C12_Purged == []<>(~Stale)

\* a call that collected no change has removed an entry tombstoned by an
\* earlier call, every change sent having been applied before
C12_Witness ==
    /\ ZeroEvents
    /\ queue = <<>>
    /\ Len(applied) = MaxEvents
    /\ \E g \in DOMAIN entry.items :
          \E i \in DOMAIN entry.items[g].items :
              /\ ~Live(entry.items[g].items[i])
              /\ entry.items[g].items[i].removed.val = Expiring
              /\ entry.items[g].items[i].id \notin IdsOf(Post[g].items)

(* ------------------------------------------------------------------ C13 *)
\* the step applies a change
ApplyStep == applied' # applied

C13_Step ==
    \A g \in DOMAIN file_items :
        /\ ApplyStep =>
              /\ Len(file_items'[g].items) >= Len(file_items[g].items)
              /\ \A i \in DOMAIN file_items[g].items :
                    file_items'[g].items[i].id = file_items[g].items[i].id
        /\ \A i \in DOMAIN file_items[g].items :
              LET f == file_items[g].items[i]
              IN  /\ (f.id \notin IdsOf(file_items'[g].items)) =>
                        (SweepStep /\ ~ApplyStep /\ ~Live(f))
                  /\ (SweepStep /\ Live(f)) =>
                        f \in {file_items'[g].items[j] : j \in DOMAIN file_items'[g].items}

\* C13: a step that applies a change leaves every entry of every group in
\* its place, so that no group gets shorter; an entry leaves its group only
\* in a step of the sweep, and only if it is tombstoned; a step of the sweep
\* leaves every live entry as it is
C13_NoDelete == [][C13_Step]_vars

\* Removed has just tombstoned an entry of a group to which an earlier
\* change had added one: the group is as long as before
C13_Witness ==
    /\ JustApplied
    /\ last.ev.kind = "Removed"
    /\ \E g \in Matching(last.ev.path, Pre) :
          /\ First(Pre[g].items, last.ev.path) # 0
          /\ Len(Pre[g].items) > Len(InitialState[g].items)
          /\ Len(Post[g].items) = Len(Pre[g].items)

(* ------------------------------------------------------------------ C14 *)
\* the path a Removed or Moved change looks for
Sought(ev) == IF ev.kind = "Removed" THEN ev.path ELSE ev.from

\* C14: when a Removed or Moved change has been applied, every group that
\* matches the path it looks for and holds no entry with that path has all
\* the entries it had, unchanged and in their places; the change is applied
\* like any other and the call goes on
C14_Untracked ==
    (JustApplied /\ last.ev.kind \in {"Removed", "Moved"}) =>
        /\ \A g \in Matching(Sought(last.ev), Pre) :
              First(Pre[g].items, Sought(last.ev)) = 0 =>
                  /\ Post[g].root = Pre[g].root
                  /\ Len(Post[g].items) >= Len(Pre[g].items)
                  /\ SubSeq(Post[g].items, 1, Len(Pre[g].items)) = Pre[g].items
        /\ pc = "run"
        /\ ENABLED (Apply \/ SweepItem \/ Return)

\* a Removed or Moved change has just been applied to a group that matches
\* its path and holds entries, none of them with that path
C14_Witness ==
    /\ JustApplied
    /\ last.ev.kind \in {"Removed", "Moved"}
    /\ \E g \in Matching(Sought(last.ev), Pre) :
          /\ First(Pre[g].items, Sought(last.ev)) = 0
          /\ Len(Pre[g].items) > 0

(* ------------------------------------------------------------------ C15 *)
\* the paths a change names
PathsOf(ev) == IF ev.kind = "Moved" THEN {ev.from, ev.to} ELSE {ev.path}

\* C15: a change all of whose paths are under no root of any group leaves
\* every group as it was
C15_NoRoot ==
    ( /\ JustApplied
      /\ \A p \in PathsOf(last.ev) : Matching(p, Pre) = {} ) =>
        Post = Pre

\* a Moved between two paths under no root has just been applied to groups
\* that an earlier change had altered
C15_Witness ==
    /\ JustApplied
    /\ last.ev.kind = "Moved"
    /\ Matching(last.ev.from, Pre) = {}
    /\ Matching(last.ev.to, Pre) = {}
    /\ Pre # InitialState

(* ------------------------------------------------------------------ C16 *)
\* the changes the table gives for a raw notification: one or none
Table(kind, paths) ==
    IF kind \in {"Create", "RenameTo"} /\ Len(paths) >= 1
    THEN <<[kind |-> "Added", path |-> paths[1]]>>
    ELSE IF kind \in {"Remove", "RenameFrom"} /\ Len(paths) >= 1
    THEN <<[kind |-> "Removed", path |-> paths[1]]>>
    ELSE IF kind = "RenameBoth" /\ Len(paths) >= 2
    THEN <<[kind |-> "Moved", from |-> paths[1], to |-> paths[2]]>>
    ELSE <<>>

C16_Step ==
    (event' # event) =>
        /\ queue' = queue \o Table(event'.kind, event'.paths)
        /\ sent' = sent \o Table(event'.kind, event'.paths)
        /\ file_items' = file_items

\* C16: handling a raw notification appends to the channel what the table
\* gives for its kind and paths, one change or none, and leaves the groups
\* as they are
C16_Table == [][C16_Step]_vars

\* a rename with both endpoints has been handled and its Moved sent, then a
\* rename that lacks its second path, for which nothing was sent
C16_Witness ==
    /\ event.n = 2
    /\ event.kind = "RenameBoth"
    /\ Len(event.paths) = 1
    /\ Len(queue) = 1
    /\ queue[1].kind = "Moved"

(* ------------------------------------------------------------ C17, C18 *)
\* where a path leads: the target of a link, the path itself otherwise (no
\* link of FileSystems leads to a link)
Leads(fs, p) == IF fs[p].type = "link" THEN fs[p].target ELSE p

IsThere(fs, p) == fs[Leads(fs, p)].type \in {"file", "dir"}
IsDirectory(fs, p) == fs[Leads(fs, p)].type = "dir"

\* the paths of the entries of the directory p leads to
Children(fs, p) ==
    [k \in DOMAIN fs[Leads(fs, p)].names |->
        Leads(fs, p) \o <<fs[Leads(fs, p)].names[k]>>]

\* the directory can be listed and each of its entries leads somewhere
Scannable(fs, p) ==
    /\ fs[Leads(fs, p)].readable
    /\ \A k \in DOMAIN Children(fs, p) : IsThere(fs, Children(fs, p)[k])

Returned == startup.pc # "args"

\* one group per path, in the order of the paths; the items of each are
\* what its directory's entries lead to, in the order of the entries, live
OneGroupPerPath(fs, paths, groups, leads) ==
    /\ Len(groups) = Len(paths)
    /\ \A i \in DOMAIN paths :
          /\ Len(groups[i].items) = Len(Children(fs, paths[i]))
          /\ \A k \in DOMAIN groups[i].items :
                /\ Live(groups[i].items[k])
                /\ groups[i].items[k].path =
                      IF leads THEN Leads(fs, Children(fs, paths[i])[k])
                      ELSE Children(fs, paths[i])[k]

\* C17 as stated: whenever every path exists and is a directory,
\* get_initial_state returns one group per path, in order, holding the
\* immediate children of the directory, all live
C17_AllValid ==
    (Returned /\ \A i \in DOMAIN startup.paths : IsDirectory(startup.fs, startup.paths[i])) =>
        /\ startup.result.ok
        /\ OneGroupPerPath(startup.fs, startup.paths, startup.result.groups, FALSE)

\* C17: whenever every path exists and is a directory, and every one of
\* these directories can be listed and each of its entries canonicalized,
\* get_initial_state returns one group per path, in order, a path named
\* twice giving two groups; the root of a group is the canonical path of the
\* directory and its items are the canonical paths of the entries, in the
\* order read_dir yields them, all live; when a directory cannot be scanned
\* it returns an error and no group.  The registry of the engine is the one
\* returned for /root, /root, /other
C17_Scanned ==
    /\ (Returned /\ \A i \in DOMAIN startup.paths : IsDirectory(startup.fs, startup.paths[i])) =>
          IF \A i \in DOMAIN startup.paths : Scannable(startup.fs, startup.paths[i])
          THEN /\ startup.result.ok
               /\ file_items = startup.result.groups
               /\ OneGroupPerPath(startup.fs, startup.paths, startup.result.groups, TRUE)
               /\ \A i \in DOMAIN startup.paths :
                     startup.result.groups[i].root = Leads(startup.fs, startup.paths[i])
          ELSE /\ ~startup.result.ok
               /\ startup.result.error = "io"
               /\ startup.result.groups = <<>>
    /\ GetInitialState(BaseFs, <<RootDir, RootDir, OtherDir>>) = Ok(InitialState)

\* a directory named by its path and through a link has given two groups
\* with the same root
C17_Witness ==
    /\ Returned
    /\ startup.result.ok
    /\ Len(startup.paths) = 2
    /\ startup.paths[1] # startup.paths[2]
    /\ Len(startup.result.groups) = 2
    /\ startup.result.groups[1].root = startup.result.groups[2].root

\* C18: when some path does not exist or is not a directory,
\* get_initial_state returns no group but the error of the first such path:
\* "does not exist" when the path leads to nothing, "is not a directory"
\* otherwise; and this whatever the scan of an earlier directory would give
C18_Validation ==
    Returned =>
        LET bad == {i \in DOMAIN startup.paths :
                       ~IsDirectory(startup.fs, startup.paths[i])}
        IN  bad # {} =>
              LET i == CHOOSE j \in bad : \A k \in bad : j <= k
              IN  /\ ~startup.result.ok
                  /\ startup.result.groups = <<>>
                  /\ file_items = <<>>
                  /\ startup.pc = "failed"
                  /\ startup.result.path = startup.paths[i]
                  /\ startup.result.error =
                        IF IsThere(startup.fs, startup.paths[i])
                        THEN "is not a directory" ELSE "does not exist"

\* the first path is a directory that cannot be scanned and the second is
\* not a directory: the error is the second's
C18_Witness ==
    /\ Returned
    /\ Len(startup.paths) = 2
    /\ IsDirectory(startup.fs, startup.paths[1])
    /\ ~Scannable(startup.fs, startup.paths[1])
    /\ ~IsDirectory(startup.fs, startup.paths[2])
    /\ startup.result.path = startup.paths[2]

(* ------------------------------------------------------------------ C19 *)
\* a status command has run and update_state has assigned its outcome
Probed == probe.ran /\ probe.pc = "idle"

\* C19 as stated: the status is Unknown, with the name of the service, when
\* the command could not be executed, exited with a code other than zero or
\* wrote bytes that are not text; otherwise it is Details
C19_FailureUnknown ==
    Probed =>
        IF \/ probe.does.kind # "exit"
           \/ probe.does.code # 0
           \/ ~probe.does.stdout.utf8
        THEN service.tag = "Unknown" /\ service.name = probe.unit
        ELSE /\ service.tag = "Details"
             /\ service.name = probe.unit
             /\ service.status = probe.does.stdout.text
             /\ service.active

\* C19: the status is one of the two variants; it is Unknown, with the name
\* of the service, when the command could not be executed or wrote bytes
\* that are not text; otherwise it is Details with the text written, and
\* active exactly when the exit code is zero
C19_Status ==
    Probed =>
        /\ service.tag \in {"Unknown", "Details"}
        /\ service.name = probe.unit
        /\ IF probe.does.kind # "exit" \/ ~probe.does.stdout.utf8
           THEN service.tag = "Unknown"
           ELSE /\ service.tag = "Details"
                /\ service.status = probe.does.stdout.text
                /\ service.active = (probe.does.code = 0)

\* the command has exited with a code other than zero and text on its
\* output: the status is Details, not active
C19_Witness ==
    /\ Probed
    /\ probe.does.kind = "exit"
    /\ probe.does.code # 0
    /\ probe.does.stdout.utf8
    /\ service.tag = "Details"
    /\ ~service.active

(* ------------------------------------------------------------------ C20 *)
\* C20: while the status command is running, update_state can return
C20_Returns == probe.pc = "running" => ENABLED ProbeEnd

(* ------------------------------------------------------------------ C21 *)
\* C21: the root of every group is a prefix of the path of every entry of
\* the group, live or tombstoned
C21_UnderRoot ==
    \A g \in DOMAIN file_items : \A i \in DOMAIN file_items[g].items :
        Under(file_items[g].items[i].path, file_items[g].root)

(* ------------------------------------------------------------------ C22 *)
\* C22: when Removed(p) finds, in a group matching p, an entry that already
\* has a tombstone, the entry gets the tombstone now of the call that
\* applies the change; and, as long as no other change is applied, the
\* entry stays while the clock has not passed that now by more than the
\* retention window, however old its earlier tombstone
C22_Restart ==
    (last.ev.kind = "Removed") =>
        \A g \in Matching(last.ev.path, Pre) :
            LET i == First(Pre[g].items, last.ev.path)
            IN  (i # 0 /\ ~Live(Pre[g].items[i])) =>
                  /\ JustApplied =>
                        /\ Post[g].items[i].id = Pre[g].items[i].id
                        /\ Tombstoned(Post[g].items[i], now)
                  /\ (clock - last.at <= DELETED_RETENTION) =>
                        \E j \in DOMAIN Post[g].items :
                            /\ Post[g].items[j].id = Pre[g].items[i].id
                            /\ Tombstoned(Post[g].items[j], last.at)

\* an entry tombstoned by an earlier call was removed again, and the call
\* that did so has returned: the entry is still there although its earlier
\* tombstone is older than the retention window
C22_Witness ==
    /\ pc = "idle"
    /\ last.ev.kind = "Removed"
    /\ \E g \in Matching(last.ev.path, Pre) :
          LET i == First(Pre[g].items, last.ev.path)
          IN  /\ i # 0
              /\ ~Live(Pre[g].items[i])
              /\ Pre[g].items[i].removed.val < last.at
              /\ clock - Pre[g].items[i].removed.val > DELETED_RETENTION
              /\ Pre[g].items[i].id \in IdsOf(Post[g].items)

(* ------------------------------------------------------------------ C23 *)
\* the roots of the groups, in the order of the groups
Roots(fi) == [g \in DOMAIN fi |-> fi[g].root]

\* C23: the registry has, in every state, the groups it had when the latest
\* call began and those it started with: as many, with the same roots in
\* the same order
C23_Groups ==
    /\ Roots(file_items) = Roots(entry.items)
    /\ Roots(file_items) = Roots(InitialState)

\* a call that applied changes has returned, and a group of a root that
\* two groups have is not as it was when the call began
C23_Witness ==
    /\ pc = "idle"
    /\ Len(applied) > entry.applied
    /\ \E g \in DOMAIN file_items : \E h \in DOMAIN file_items :
          /\ g # h
          /\ file_items[g].root = file_items[h].root
          /\ View(file_items[g].items) # View(entry.items[g].items)

(* ------------------------------------------------------------------ C24 *)
\* C24: in every group, the entries that were there when the latest call
\* began and still are come first, in the order they had; the entries
\* created since follow them, in the order of their creation
C24_Order ==
    \A g \in DOMAIN file_items :
        LET items == file_items[g].items
            old == Surviving(entry.items[g].items, items)
        IN  /\ Len(old) <= Len(items)
            /\ \A k \in DOMAIN old : items[k].id = old[k].id
            /\ \A k \in (Len(old) + 1)..Len(items) :
                  /\ items[k].id \notin IdsOf(entry.items[g].items)
                  /\ \A j \in (Len(old) + 1)..(k - 1) : items[j].id < items[k].id

\* a call has returned whose sweep removed the first entry of a group and
\* which created an entry there: the group holds an older entry, then the
\* new one
C24_Witness ==
    /\ pc = "idle"
    /\ \E g \in DOMAIN file_items :
          LET items == file_items[g].items
              before == entry.items[g].items
          IN  /\ Len(before) >= 2
              /\ before[1].id \notin IdsOf(items)
              /\ Len(items) >= 2
              /\ items[1].id \in IdsOf(before)
              /\ items[Len(items)].id \notin IdsOf(before)

(* ------------------------------------------------------------------ C25 *)
\* C25: when Removed(p) has just been applied, no group matching p holds a
\* live entry with path p
C25_NoLiveCopy ==
    (JustApplied /\ last.ev.kind = "Removed") =>
        \A g \in Matching(last.ev.path, Post) :
            \A i \in DOMAIN Post[g].items :
                Post[g].items[i].path = last.ev.path => ~Live(Post[g].items[i])

====
